---- MODULE Spec2Model ----
(***************************************************************************)
(* Settings builder of the sf-go-profiler: the Config struct, its          *)
(* constructor NewProfilerConfig and its mutators, as written in           *)
(* src/profiler/config.go and in the older copy src/unnamed/part_000.      *)
(*                                                                         *)
(* Go slices are modelled as headers (backing array, len, cap) over a heap *)
(* of backing arrays, so that the sharing of the package-level slices      *)
(* allProfiles / defaultProfiles between Configs is part of the model.     *)
(***************************************************************************)
EXTENDS Integers, Sequences, FiniteSets, TLC

(* ------------------------------------------------------------------ *)
(* Bounds of the model                                                 *)
(* ------------------------------------------------------------------ *)

\* Enable<Type> calls (appends) made on one Config.
MaxAppends == 2

\* Config instances: Spec drives the first one, SpecShared both.
Cfgs == {1, 2}
SoloCfgs == {1}

\* The two copies of the package in the repository.
Pkgs == {"config", "part_000"}

\* Arguments handed to the mutators.
IntArgs == {-1, 0, 1}
Services == {"", "api"}
URLs == {"http://10.0.0.7:9000/profile"}
Loggers == {"customlogf"}

(* ------------------------------------------------------------------ *)
(* Constants of the package                                            *)
(* ------------------------------------------------------------------ *)

cpu == "cpu"
heap == "heap"
block == "block"
mutex == "mutex"
goroutine == "goroutine"
allocs == "allocs"
threadcreate == "threadcreate"
metrics == "metrics"

\* time.Duration counts nanoseconds in an int64; the model counts
\* milliseconds, so time.Second is 1000.  For the arguments of IntArgs the
\* int64 product time.Duration(i) * time.Second does not overflow.
Second == 1000

DefaultProfilesAge == 900 * Second
DefaultAgentURL == "http://127.0.0.1:8586/profile"
DefaultCPUProfileDuration == 10 * Second
DefaultProfileInterval == 60 * Second

\* The nil value of a func field.
Nil == "nil"

\* The slot of a Config that has not been constructed.
NoConfig == [pkg |-> Nil]

\* The package-level slice literals, in src/profiler/config.go and in the
\* older copy of the package.
allProfilesLiteral == <<threadcreate, block, mutex, goroutine, allocs, heap, cpu>>
defaultProfilesLiteral == <<heap, cpu>>
allProfilesLiteral_part000 == <<cpu, heap, block, mutex, goroutine, allocs, threadcreate>>
defaultProfilesLiteral_part000 == <<cpu, heap>>

\* A catalog literal that leaves allocs out.
AllProfilesInit_NoAllocs(p) ==
    IF p = "config"
    THEN <<threadcreate, block, mutex, goroutine, heap, cpu>>
    ELSE <<cpu, heap, block, mutex, goroutine, threadcreate>>

\* Initial contents of the package-level slices of package copy p.
AllProfilesInit(p) ==
    IF p = "config" THEN allProfilesLiteral ELSE allProfilesLiteral_part000

DefaultProfilesInit(p) ==
    IF p = "config" THEN defaultProfilesLiteral ELSE defaultProfilesLiteral_part000

\* Backing arrays of the slice literals: a literal's array is exactly as
\* long as the literal.
AllArr(p) == IF p = "config" THEN 1 ELSE 3
DefaultArr(p) == IF p = "config" THEN 2 ELSE 4

StaticArrays ==
    << AllProfilesInit("config"), DefaultProfilesInit("config"),
       AllProfilesInit("part_000"), DefaultProfilesInit("part_000") >>

\* Arrays append can allocate: one per Config, and one more while an append
\* copies out of the array it replaces.  A free one is empty.
DynArrs == (Len(StaticArrays) + 1)..(Len(StaticArrays) + Cardinality(Cfgs) + 1)

\* Slice headers of the package-level variables (never reassigned).
allProfiles(p) ==
    [arr |-> AllArr(p), len |-> Len(AllProfilesInit(p)),
     cap |-> Len(AllProfilesInit(p))]

\* defaultProfiles written as a re-slice of the catalog, allProfiles[:2]:
\* same contents in part_000, but the capacity of the whole catalog.
defaultProfiles_Resliced(p) ==
    IF p = "part_000"
    THEN [arr |-> AllArr(p), len |-> 2, cap |-> Len(AllProfilesInit(p))]
    ELSE [arr |-> DefaultArr(p), len |-> 2, cap |-> 2]

defaultProfiles(p) ==
    [arr |-> DefaultArr(p), len |-> Len(DefaultProfilesInit(p)),
     cap |-> Len(DefaultProfilesInit(p))]

(* ------------------------------------------------------------------ *)
(* State                                                               *)
(* ------------------------------------------------------------------ *)

VARIABLES
    arrays,     \* the heap: backing array id -> its elements (Len = cap)
    cfg,        \* Config instance -> its fields, or NoConfig before construction
    fresh,      \* history: no mutator was called on the Config yet
    expected,   \* history: the list each Config's own calls ask for
    allCalled,  \* history: EnableAllProfiles was called on the Config
    nAppend     \* history: number of Enable<Type> calls on the Config

vars == <<arrays, cfg, fresh, expected, allCalled, nAppend>>

Constructed(c) == cfg[c].pkg # Nil

(* ------------------------------------------------------------------ *)
(* Slices                                                              *)
(* ------------------------------------------------------------------ *)

\* The elements a slice header s denotes over the heap a.
Elems(a, s) == SubSeq(a[s.arr], 1, s.len)

\* Capacity of the array append allocates when the old one is full
\* (runtime growslice below its 256-element threshold: doubling, or the
\* needed length if that is more).
GrowCap(oldCap, newLen) ==
    IF newLen > 2 * oldCap THEN newLen ELSE 2 * oldCap

\* An array is live while a Config's slice refers to it.  The allocator
\* hands out an array no slice refers to (the lowest free one, to keep the
\* heap canonical).
Live(i) == \E c \in Cfgs : Constructed(c) /\ cfg[c].profileTypes.arr = i
FreeArr == CHOOSE i \in DynArrs : ~Live(i) /\ \A j \in DynArrs : ~Live(j) => i <= j

\* append(s, x): the heap and the slice header after the call.  With spare
\* capacity the element is written into the backing array s shares; without,
\* the elements are copied to a fresh array.
append(a, s, x) ==
    IF s.len < s.cap
    THEN [mem |-> [a EXCEPT ![s.arr][s.len + 1] = x],
          slice |-> [s EXCEPT !.len = s.len + 1]]
    ELSE LET nc == GrowCap(s.cap, s.len + 1)
             grown == [i \in 1..nc |->
                         IF i <= s.len THEN a[s.arr][i]
                         ELSE IF i = s.len + 1 THEN x ELSE ""]
         IN [mem |-> [a EXCEPT ![FreeArr] = grown],
             slice |-> [arr |-> FreeArr, len |-> s.len + 1, cap |-> nc]]

\* Garbage collection: the heap a with the allocated arrays that no slice
\* of the Configs k refers to any more reclaimed.
Collect(a, k) ==
    [i \in DOMAIN a |->
        IF i \in DynArrs /\ ~\E c \in Cfgs : k[c].pkg # Nil /\ k[c].profileTypes.arr = i
        THEN <<>> ELSE a[i]]

\* Value-level helpers.
Range(s) == {s[i] : i \in 1..Len(s)}
NoDuplicates(s) == \A i, j \in 1..Len(s) : s[i] = s[j] => i = j

ProfileTypes(c) == Elems(arrays, cfg[c].profileTypes)
EnabledSet(c) == Range(ProfileTypes(c))

(* ------------------------------------------------------------------ *)
(* Construction                                                        *)
(* ------------------------------------------------------------------ *)

\* A constructor that mixes up the two default durations.
NewConfig_SwappedDefaults(p, service) ==
    IF p = "config"
    THEN [pkg |-> p, service |-> service,
          duration |-> DefaultProfileInterval,
          interval |-> DefaultCPUProfileDuration,
          profileTypes |-> defaultProfiles(p), cancel |-> Nil,
          outProfile |-> Len(AllProfilesInit(p)) + 1, outMetrics |-> 1,
          dumpToFile |-> FALSE, targetURL |-> DefaultAgentURL,
          customTarget |-> FALSE, logf |-> "defaultlogf"]
    ELSE [pkg |-> p, service |-> service,
          duration |-> DefaultProfileInterval,
          interval |-> DefaultCPUProfileDuration,
          profileTypes |-> defaultProfiles(p), cancel |-> Nil,
          out |-> Len(AllProfilesInit(p)) + 1,
          dumpToFile |-> FALSE, targetURL |-> DefaultAgentURL,
          customTarget |-> FALSE, logf |-> "defaultlogf"]

\* The struct literal NewProfilerConfig returns in src/profiler/config.go.
\* The channel fields hold the capacity the channel is made with.
ConfigLiteral(service) ==
    [pkg |-> "config", service |-> service,
     duration |-> DefaultCPUProfileDuration,
     interval |-> DefaultProfileInterval,
     profileTypes |-> defaultProfiles("config"), cancel |-> Nil,
     outProfile |-> Len(AllProfilesInit("config")) + 1, outMetrics |-> 1,
     dumpToFile |-> FALSE, targetURL |-> DefaultAgentURL,
     customTarget |-> FALSE, logf |-> "defaultlogf"]

\* The struct literal of the older copy: one channel, out.
ConfigLiteral_part000(service) ==
    [pkg |-> "part_000", service |-> service,
     duration |-> DefaultCPUProfileDuration,
     interval |-> DefaultProfileInterval,
     profileTypes |-> defaultProfiles("part_000"), cancel |-> Nil,
     out |-> Len(AllProfilesInit("part_000")) + 1,
     dumpToFile |-> FALSE, targetURL |-> DefaultAgentURL,
     customTarget |-> FALSE, logf |-> "defaultlogf"]

NewConfig(p, service) ==
    IF p = "config" THEN ConfigLiteral(service) ELSE ConfigLiteral_part000(service)

Init ==
    /\ arrays = StaticArrays \o [i \in 1..Cardinality(DynArrs) |-> <<>>]
    /\ cfg = [c \in Cfgs |-> NoConfig]
    /\ fresh = [c \in Cfgs |-> FALSE]
    /\ expected = [c \in Cfgs |-> <<>>]
    /\ allCalled = [c \in Cfgs |-> FALSE]
    /\ nAppend = [c \in Cfgs |-> 0]

NewProfilerConfig(c, p, service) ==
    /\ ~Constructed(c)
    /\ cfg' = [cfg EXCEPT ![c] = NewConfig(p, service)]
    /\ fresh' = [fresh EXCEPT ![c] = TRUE]
    /\ expected' = [expected EXCEPT ![c] = DefaultProfilesInit(p)]
    /\ UNCHANGED <<arrays, allCalled, nAppend>>

(* ------------------------------------------------------------------ *)
(* Mutators                                                            *)
(* ------------------------------------------------------------------ *)

SetInterval(c, i) ==
    /\ Constructed(c)
    /\ cfg' = [cfg EXCEPT ![c].interval = i * Second]
    /\ fresh' = [fresh EXCEPT ![c] = FALSE]
    /\ UNCHANGED <<arrays, expected, allCalled, nAppend>>

SetCPUProfileDuration(c, i) ==
    /\ Constructed(c)
    /\ cfg' = [cfg EXCEPT ![c].duration = i * Second]
    /\ fresh' = [fresh EXCEPT ![c] = FALSE]
    /\ UNCHANGED <<arrays, expected, allCalled, nAppend>>

\* cfg.profileTypes = append(cfg.profileTypes, tag), the body shared by the
\* four Enable<Type> mutators.
EnableType(c, tag) ==
    /\ Constructed(c)
    /\ nAppend[c] < MaxAppends
    /\ LET r == append(arrays, cfg[c].profileTypes, tag)
           k == [cfg EXCEPT ![c].profileTypes = r.slice]
       IN /\ cfg' = k
          /\ arrays' = Collect(r.mem, k)
    /\ fresh' = [fresh EXCEPT ![c] = FALSE]
    /\ expected' = [expected EXCEPT ![c] = Append(@, tag)]
    /\ nAppend' = [nAppend EXCEPT ![c] = @ + 1]
    /\ UNCHANGED allCalled

EnableBlockProfile(c) == EnableType(c, block)
EnableMutexProfile(c) == EnableType(c, mutex)
EnableGoRoutineProfile(c) == EnableType(c, goroutine)
EnableThreadCreateProfile(c) == EnableType(c, threadcreate)

\* EnableAllProfiles assigning the wrong package-level slice.
EnableAllProfiles_Default(c) ==
    /\ Constructed(c)
    /\ LET k == [cfg EXCEPT ![c].profileTypes = defaultProfiles(cfg[c].pkg)]
       IN /\ cfg' = k
          /\ arrays' = Collect(arrays, k)
    /\ fresh' = [fresh EXCEPT ![c] = FALSE]
    /\ expected' = [expected EXCEPT ![c] = AllProfilesInit(cfg[c].pkg)]
    /\ allCalled' = [allCalled EXCEPT ![c] = TRUE]
    /\ UNCHANGED nAppend

EnableAllProfiles(c) ==
    /\ Constructed(c)
    /\ LET k == [cfg EXCEPT ![c].profileTypes = allProfiles(cfg[c].pkg)]
       IN /\ cfg' = k
          /\ arrays' = Collect(arrays, k)
    /\ fresh' = [fresh EXCEPT ![c] = FALSE]
    /\ expected' = [expected EXCEPT ![c] = AllProfilesInit(cfg[c].pkg)]
    /\ allCalled' = [allCalled EXCEPT ![c] = TRUE]
    /\ UNCHANGED nAppend

WriteProfileToFile(c) ==
    /\ Constructed(c)
    /\ cfg' = [cfg EXCEPT ![c].dumpToFile = TRUE]
    /\ fresh' = [fresh EXCEPT ![c] = FALSE]
    /\ UNCHANGED <<arrays, expected, allCalled, nAppend>>

SetTargetURL(c, url) ==
    /\ Constructed(c)
    /\ cfg' = [cfg EXCEPT ![c].customTarget = TRUE, ![c].targetURL = url]
    /\ fresh' = [fresh EXCEPT ![c] = FALSE]
    /\ UNCHANGED <<arrays, expected, allCalled, nAppend>>

SetLogger(c, logf) ==
    /\ Constructed(c)
    /\ cfg' = [cfg EXCEPT ![c].logf = logf]
    /\ fresh' = [fresh EXCEPT ![c] = FALSE]
    /\ UNCHANGED <<arrays, expected, allCalled, nAppend>>

\* Start of the Scheduler Loop (Idle -> Running).  The method is not among
\* the source files; from the spec's section 4.4 and the cancel field of
\* Config: the running loop holds the cancel function of its context.
Start(c) ==
    /\ Constructed(c)
    /\ cfg[c].cancel = Nil
    /\ cfg' = [cfg EXCEPT ![c].cancel = "cancel"]
    /\ UNCHANGED fresh
    /\ UNCHANGED <<arrays, expected, allCalled, nAppend>>

Started(c) == Constructed(c) /\ cfg[c].cancel # Nil

(* ------------------------------------------------------------------ *)
(* Specifications                                                      *)
(* ------------------------------------------------------------------ *)

\* One Config, every operation.
Next ==
    \E c \in SoloCfgs :
        \/ \E p \in Pkgs, s \in Services : NewProfilerConfig(c, p, s)
        \/ \E i \in IntArgs : SetInterval(c, i)
        \/ \E i \in IntArgs : SetCPUProfileDuration(c, i)
        \/ EnableBlockProfile(c)
        \/ EnableMutexProfile(c)
        \/ EnableGoRoutineProfile(c)
        \/ EnableThreadCreateProfile(c)
        \/ EnableAllProfiles(c)
        \/ WriteProfileToFile(c)
        \/ \E u \in URLs : SetTargetURL(c, u)
        \/ \E l \in Loggers : SetLogger(c, l)
        \/ Start(c)

Spec == Init /\ [][Next]_vars

\* Two Configs of either package, the operations on the profile-type list
\* interleaved.
NextShared ==
    \E c \in Cfgs :
        \/ \E p \in Pkgs, s \in {"api"} : NewProfilerConfig(c, p, s)
        \/ EnableBlockProfile(c)
        \/ EnableMutexProfile(c)
        \/ EnableGoRoutineProfile(c)
        \/ EnableThreadCreateProfile(c)
        \/ EnableAllProfiles(c)

SpecShared == Init /\ [][NextShared]_vars

(* ------------------------------------------------------------------ *)
(* Properties                                                          *)
(* ------------------------------------------------------------------ *)

\* The full catalog of profile types, as the specification lists it.
Catalog == {cpu, heap, block, mutex, goroutine, allocs, threadcreate}

\* Capacity of the channel the captured profiles are enqueued on.
ProfileChanCap(c) ==
    IF cfg[c].pkg = "config" THEN cfg[c].outProfile ELSE cfg[c].out

\* The settings fields of a Config, the list by its contents.
Settings(c) ==
    << cfg[c].interval, cfg[c].duration, ProfileTypes(c),
       cfg[c].dumpToFile, cfg[c].targetURL, cfg[c].customTarget >>

\* C1: Enable<Type> is idempotent: the enabled list of every reachable
\* Config holds each tag at most once, and an Enable<Type> call for a tag
\* that is already enabled leaves the list as it was.
C1_EnableTypeIdempotent ==
    /\ [](\A c \in Cfgs : Constructed(c) => NoDuplicates(ProfileTypes(c)))
    /\ [][\A c \in Cfgs, t \in {block, mutex, goroutine, threadcreate} :
            (EnableType(c, t) /\ t \in EnabledSet(c))
                => ProfileTypes(c)' = ProfileTypes(c)]_vars

\* C2: every EnableAllProfiles call, whatever the Config held before,
\* leaves exactly the seven distinct tags of the catalog enabled; called on
\* a Config that already holds the catalog it changes nothing, so two
\* calls yield what one call yields.
C2_EnableAllYieldsCatalog ==
    [][\A c \in Cfgs :
          EnableAllProfiles(c) =>
              /\ Len(ProfileTypes(c)') = 7
              /\ NoDuplicates(ProfileTypes(c)')
              /\ EnabledSet(c)' = Catalog
              /\ (allCalled[c] /\ nAppend[c] = nAppend'[c]
                      /\ Len(ProfileTypes(c)) = 7 /\ EnabledSet(c) = Catalog
                    => ProfileTypes(c)' = ProfileTypes(c))]_vars

\* C2 witness: EnableAllProfiles has replaced a list that Enable<Type>
\* calls had extended.
C2_Witness ==
    /\ Constructed(1) /\ allCalled[1] /\ nAppend[1] > 0
    /\ Len(ProfileTypes(1)) = 7 /\ EnabledSet(1) = Catalog

\* C3 as written: NewProfilerConfig(service) returns interval 60s, CPU
\* duration 10s, profile set {cpu, heap}, output to file, the default
\* agent endpoint as target and the given service name.
C3_DefaultsOutputToFile ==
    [][\A c \in Cfgs, p \in Pkgs, s \in Services :
          NewProfilerConfig(c, p, s) =>
              /\ cfg'[c].interval = 60 * Second
              /\ cfg'[c].duration = 10 * Second
              /\ EnabledSet(c)' = {cpu, heap}
              /\ cfg'[c].dumpToFile = TRUE
              /\ cfg'[c].targetURL = "http://127.0.0.1:8586/profile"
              /\ cfg'[c].service = s]_vars

\* C3 amended: NewProfilerConfig(service) returns interval 60s, CPU
\* duration 10s, the two-entry profile list {cpu, heap}, output to the
\* network (file output not selected, no custom target) with the default
\* agent endpoint as target, and the given service name.
C3_DefaultsOutputToAgent ==
    [][\A c \in Cfgs, p \in Pkgs, s \in Services :
          NewProfilerConfig(c, p, s) =>
              /\ cfg'[c].interval = 60 * Second
              /\ cfg'[c].duration = 10 * Second
              /\ Len(ProfileTypes(c)') = 2
              /\ EnabledSet(c)' = {cpu, heap}
              /\ cfg'[c].dumpToFile = FALSE
              /\ cfg'[c].customTarget = FALSE
              /\ cfg'[c].targetURL = "http://127.0.0.1:8586/profile"
              /\ cfg'[c].service = s]_vars

\* C3 witness: a Config just constructed, no mutator called on it.
C3_Witness ==
    Constructed(1) /\ fresh[1] /\ cfg[1].service = "api"

\* C4: invalid settings never stand in a Config: interval > 0, CPU
\* duration > 0 and a non-empty service name in every reachable Config.
C4_SettingsValid ==
    \A c \in Cfgs :
        Constructed(c) =>
            /\ cfg[c].interval > 0
            /\ cfg[c].duration > 0
            /\ cfg[c].service # ""

\* C5: once the Scheduler Loop has started, no step changes a settings
\* field of the Config.
C5_ReadOnlyAfterStart ==
    [][\A c \in Cfgs : Started(c) => Settings(c)' = Settings(c)]_vars

\* C6: a Config never has file output and a custom network target selected
\* together.
C6_OneOutputMode ==
    \A c \in Cfgs :
        Constructed(c) => ~(cfg[c].dumpToFile /\ cfg[c].customTarget)

\* C7: one round (an artifact per entry of the enabled list, plus the
\* metrics sample) never exceeds the capacity the channel was made with,
\* len(allProfiles) + 1 = 8.
C7_RoundFitsChannel ==
    \A c \in Cfgs :
        Constructed(c) =>
            /\ ProfileChanCap(c) = 8
            /\ Len(ProfileTypes(c)) + 1 <= ProfileChanCap(c)

\* C8: cpu is the first or the last entry of the enabled list.
C8_CpuFirstOrLast ==
    \A c \in Cfgs :
        Constructed(c) =>
            LET l == ProfileTypes(c)
            IN l[1] = cpu \/ l[Len(l)] = cpu

\* C9: whatever calls are interleaved on two Configs, the package-level
\* catalogs keep their initial contents and each Config's enabled list is
\* the one its own calls ask for.
C9_ConfigsIndependent ==
    /\ \A p \in Pkgs :
        /\ Elems(arrays, allProfiles(p)) = AllProfilesInit(p)
        /\ arrays[AllArr(p)] = AllProfilesInit(p)
        /\ Elems(arrays, defaultProfiles(p)) = DefaultProfilesInit(p)
        /\ arrays[DefaultArr(p)] = DefaultProfilesInit(p)
    /\ \A c \in Cfgs : Constructed(c) => ProfileTypes(c) = expected[c]

\* C9 witness: two Configs of one package both took the shared catalog
\* slice and then each appended to it, ending with different lists.
C9_Witness ==
    /\ Constructed(1) /\ Constructed(2) /\ cfg[1].pkg = cfg[2].pkg
    /\ allCalled[1] /\ allCalled[2]
    /\ Len(ProfileTypes(1)) = 8 /\ Len(ProfileTypes(2)) = 8
    /\ ProfileTypes(1) # ProfileTypes(2)

\* C10: no step removes a profile type from a Config's enabled set; cpu
\* and heap are always enabled, every enabled tag is one of the seven of
\* the catalog (never the metrics tag), and allocs is enabled only after
\* EnableAllProfiles was called.
C10_EnabledSetOnlyGrows ==
    /\ [](\A c \in Cfgs :
            Constructed(c) =>
                /\ {cpu, heap} \subseteq EnabledSet(c)
                /\ EnabledSet(c) \subseteq Catalog
                /\ metrics \notin EnabledSet(c)
                /\ (allocs \in EnabledSet(c) => allCalled[c]))
    /\ [][\A c \in Cfgs :
            Constructed(c) => EnabledSet(c) \subseteq EnabledSet(c)']_vars

\* C10 witness: EnableAllProfiles and Enable<Type> calls have both acted:
\* allocs is enabled and the list is longer than the catalog.
C10_Witness ==
    /\ Constructed(1) /\ allCalled[1] /\ allocs \in EnabledSet(1)
    /\ Len(ProfileTypes(1)) > 7

====
